---- MODULE Spec2Model ----
(***************************************************************************)
(* Model of awc's connector adapter (awc/src/connect.rs):                  *)
(*   - ConnectorWrapper<T>, the four operations of the Connect trait, each *)
(*     of which is the future chain                                        *)
(*        self.0.call(ClientConnect{..}).from_err().and_then(..).map(..)   *)
(*   - BoxedSocket, the type-erased transport handed out by open_tunnel.   *)
(* The connector (T: Service) and the Connection it returns are the        *)
(* environment: they complete the dial and the exchange/upgrade with any   *)
(* outcome their types allow.                                              *)
(***************************************************************************)
EXTENDS Integers, Sequences, FiniteSets, TLC

\* Number of adapter operations started on one ConnectorWrapper.
MaxOps == 2

Ops == 1..MaxOps
\* The connector's future resolves to a Connection value of its own: the
\* value returned to the dial of operation o is named o.
Conns == Ops

----------------------------------------------------------------------------
\* Values

\* Option<X> is the empty set (None) or a singleton (Some(x)).
None == {}
Some(x) == {x}

Bodies == {"Body::Bytes"}

\* RequestHead values (method, uri, headers); version is not read here.
RequestHeads ==
    { [method |-> "GET", uri |-> "http://a.test/", headers |-> {"accept"}],
      [method |-> "POST", uri |-> "http://b.test/", headers |-> {}] }

NoHead == [method |-> "", uri |-> "", headers |-> {}]

\* RequestHeadType::from(head): the owned variant.
RequestHeadTypeFrom(head) ==
    [tag |-> "Owned", head |-> head, rc |-> FALSE, extra |-> None]

\* RequestHeadType::Rc(head, extra_headers): a handle on the shared head
\* (the Rc allocation modelled by the variable rcHead) plus the overlay.
RequestHeadTypeRc(extra_headers) ==
    [tag |-> "Rc", head |-> NoHead, rc |-> TRUE, extra |-> extra_headers]

\* ClientConnect { uri, addr }
ClientConnect(uri, addr) == [uri |-> uri, addr |-> addr]

ConnectErrors == {"Timeout", "Disconnected"}

\* SendRequestError values: the Connect variant wraps a ConnectError, the
\* others stand for Send(io::Error) and Response(ParseError).
SendRequestErrorConnect(e) == [variant |-> "Connect", inner |-> e]
SendRequestErrors ==
    { SendRequestErrorConnect("Disconnected"), [variant |-> "Send", inner |-> "io"] }

\* From<ConnectError> for SendRequestError, used by from_err().
FromConnectError(e) == SendRequestErrorConnect(e)

ResponseHeads ==
    { [status |-> 200, headers |-> {"content-length"}],
      [status |-> 101, headers |-> {"upgrade"}] }
Payloads == {"Payload::Stream"}
\* Concrete transports a Connection may hand out on upgrade.
Ios == {"TcpStream", "SslStream"}

\* ClientResponse::new(head, payload)
ClientResponseNew(head, payload) == [head |-> head, payload |-> payload]

\* Socket(io) and BoxedSocket(Box::new(..)): each layer holds the value it
\* was built from.
Socket(io) == [socket |-> io]
BoxedSocket(s) == [boxed |-> s]
\* framed.map_io(f): the io of the Framed is replaced by f(io).
FramedOf(io) == [io |-> io, codec |-> "ClientCodec"]

----------------------------------------------------------------------------
\* State

VARIABLES
    rcHead,     \* contents of the shared Rc<RequestHead>
    call,       \* call[o]: the arguments operation o was invoked with
    chain,      \* chain[o]: state of the boxed future of operation o
    dialed,     \* dialed[o]: the ClientConnect values o passed to self.0.call
    dialRes,    \* dialRes[o]: what the connector's future of o returned
    connCalls,  \* connCalls[c]: calls received by Connection c
    exRes,      \* exRes[o]: what the Connection's future of o returned
    result,     \* result[o]: what the boxed future of o resolved to
    dropped,    \* inner futures that have been dropped
    transport,  \* the concrete transport behind the BoxedSocket of a tunnel
    concreteLog,\* calls the concrete transport received, with what it returned
    boxedLog,   \* calls made on the BoxedSocket, with what the caller got
    debugOut    \* what the last Debug rendering of the BoxedSocket wrote

adapterVars == <<rcHead, call, chain, dialed, dialRes, connCalls, exRes, result,
                 dropped>>
ioVars == <<transport, concreteLog, boxedLog, debugOut>>
vars == <<rcHead, call, chain, dialed, dialRes, connCalls, exRes, result,
          dropped, transport, concreteLog, boxedLog, debugOut>>

Kinds == {"send_request", "send_request_extra", "open_tunnel", "open_tunnel_extra"}

NoCall == [kind |-> "none", head |-> RequestHeadTypeFrom(NoHead),
           body |-> None, addr |-> None]
Pending == [tag |-> "Pending"]
NoResult == [tag |-> "None"]
Ok(v) == [tag |-> "Ok", val |-> v]
Err(e) == [tag |-> "Err", val |-> e]

\* No tunnel has been opened: there is no transport to act on.
NoTransport ==
    [kind |-> "none", sent |-> <<>>, incoming |-> <<>>, received |-> <<>>,
     window |-> 0, closed |-> FALSE, readReady |-> FALSE, writeReady |-> FALSE]

Init ==
    /\ rcHead \in RequestHeads
    /\ call = [o \in Ops |-> NoCall]
    /\ chain = [o \in Ops |-> "none"]
    /\ dialed = [o \in Ops |-> <<>>]
    /\ dialRes = [o \in Ops |-> Pending]
    /\ connCalls = [c \in Conns |-> <<>>]
    /\ exRes = [o \in Ops |-> Pending]
    /\ result = [o \in Ops |-> NoResult]
    /\ dropped = {}
    /\ transport = NoTransport
    /\ concreteLog = <<>>
    /\ boxedLog = <<>>
    /\ debugOut = ""

----------------------------------------------------------------------------
\* The four operations.  Each one calls the connector synchronously and
\* returns the boxed chain in its first state.

\* Operations are numbered in the order they are started.
CanStart(o) ==
    /\ chain[o] = "none"
    /\ \A p \in Ops : p < o => chain[p] # "none"

\* Service::poll_ready of the connector (the environment): a connector
\* that takes one dial at a time is not ready while a dial is in flight.
ConnectorReady == \A p \in Ops : chain[p] # "First"

\* As Start, but the dial is left for the first poll of the future.
StartLazy(o, kind, headType, uri, body, addr) ==
    /\ CanStart(o)
    /\ call' = [call EXCEPT ![o] =
                   [kind |-> kind, head |-> headType, body |-> body, addr |-> addr]]
    /\ chain' = [chain EXCEPT ![o] = "First"]
    /\ UNCHANGED <<dialed, dialRes, connCalls, exRes, result, dropped, transport, concreteLog, boxedLog, debugOut>>

\* As Start, but the connector is dialed only once it reports ready.
StartWhenReady(o, kind, headType, uri, body, addr) ==
    /\ CanStart(o)
    /\ ConnectorReady
    /\ dialed' = [dialed EXCEPT ![o] = Append(@, ClientConnect(uri, addr))]
    /\ call' = [call EXCEPT ![o] =
                   [kind |-> kind, head |-> headType, body |-> body, addr |-> addr]]
    /\ chain' = [chain EXCEPT ![o] = "First"]
    /\ UNCHANGED <<dialRes, connCalls, exRes, result, dropped, transport, concreteLog, boxedLog, debugOut>>

Start(o, kind, headType, uri, body, addr) ==
    /\ CanStart(o)
    /\ dialed' = [dialed EXCEPT ![o] = Append(@, ClientConnect(uri, addr))]
    /\ call' = [call EXCEPT ![o] =
                   [kind |-> kind, head |-> headType, body |-> body, addr |-> addr]]
    /\ chain' = [chain EXCEPT ![o] = "First"]
    /\ UNCHANGED <<dialRes, connCalls, exRes, result, dropped, transport, concreteLog, boxedLog, debugOut>>

send_request(o, head, body, addr) ==
    /\ Start(o, "send_request", RequestHeadTypeFrom(head), head.uri, Some(body), addr)
    /\ UNCHANGED rcHead

\* As send_request_extra, but the overlay is merged into the shared head.
send_request_extra_merging(o, extra_headers, body, addr) ==
    /\ Start(o, "send_request_extra", RequestHeadTypeRc(extra_headers),
             rcHead.uri, Some(body), addr)
    /\ rcHead' = [rcHead EXCEPT !.headers = @ \cup UNION extra_headers]

send_request_extra(o, extra_headers, body, addr) ==
    /\ Start(o, "send_request_extra", RequestHeadTypeRc(extra_headers),
             rcHead.uri, Some(body), addr)
    /\ UNCHANGED rcHead

open_tunnel(o, head, addr) ==
    /\ Start(o, "open_tunnel", RequestHeadTypeFrom(head), head.uri, None, addr)
    /\ UNCHANGED rcHead

\* As open_tunnel_extra, but the pre-resolved address is not passed on.
open_tunnel_extra_noaddr(o, extra_headers, addr) ==
    /\ CanStart(o)
    /\ dialed' = [dialed EXCEPT ![o] = Append(@, ClientConnect(rcHead.uri, None))]
    /\ call' = [call EXCEPT ![o] =
                   [kind |-> "open_tunnel_extra", head |-> RequestHeadTypeRc(extra_headers),
                    body |-> None, addr |-> addr]]
    /\ chain' = [chain EXCEPT ![o] = "First"]
    /\ UNCHANGED <<rcHead, dialRes, connCalls, exRes, result, dropped, transport,
                   concreteLog, boxedLog, debugOut>>

open_tunnel_extra(o, extra_headers, addr) ==
    /\ Start(o, "open_tunnel_extra", RequestHeadTypeRc(extra_headers),
             rcHead.uri, None, addr)
    /\ UNCHANGED rcHead

----------------------------------------------------------------------------
\* Polling the boxed future.  A poll of the chain polls the future it holds;
\* that future (the connector's, then the Connection's) is the environment
\* and returns NotReady (no step), Ok or Err.

IsTunnel(kind) == kind \in {"open_tunnel", "open_tunnel_extra"}

\* Item types of Connection::Future and Connection::TunnelFuture.
ExchangeItems(kind) ==
    IF IsTunnel(kind)
    THEN { [head |-> [status |-> 101, headers |-> {"upgrade"}],
            framed |-> FramedOf("TcpStream")],
           [head |-> [status |-> 200, headers |-> {"content-length"}],
            framed |-> FramedOf("SslStream")] }
    ELSE { [head |-> h, payload |-> p] : h \in ResponseHeads, p \in Payloads }

\* As ConnectionMethod, but every operation uses the exchange.
ConnectionMethodExchangeOnly(kind) == "send_request"

\* The method the and_then closure calls on the connection.
ConnectionMethod(kind) == IF IsTunnel(kind) THEN "open_tunnel" ELSE "send_request"

\* As PollDialErr, but the closure runs on the dial's error too (then in
\* place of and_then).
PollDialErrThen(o, e) ==
    /\ chain[o] = "First"
    /\ dialRes' = [dialRes EXCEPT ![o] = Err(e)]
    /\ connCalls' = [connCalls EXCEPT ![o] =
                        Append(@, [by |-> o,
                                   method |-> ConnectionMethod(call[o].kind),
                                   head |-> call[o].head,
                                   body |-> call[o].body])]
    /\ chain' = [chain EXCEPT ![o] = "Second"]
    /\ UNCHANGED <<rcHead, call, dialed, exRes, result, dropped, transport, concreteLog, boxedLog, debugOut>>

\* As PollDialErr, but the error is reported as a send failure.
PollDialErrAsSend(o, e) ==
    /\ chain[o] = "First"
    /\ dialRes' = [dialRes EXCEPT ![o] = Err(e)]
    /\ result' = [result EXCEPT ![o] = Err([variant |-> "Send", inner |-> "io"])]
    /\ chain' = [chain EXCEPT ![o] = "Done"]
    /\ UNCHANGED <<rcHead, call, dialed, connCalls, exRes, dropped, transport, concreteLog, boxedLog, debugOut>>

\* from_err(): the dial's error becomes a SendRequestError and and_then
\* passes it through without running its closure.
PollDialErr(o, e) ==
    /\ chain[o] = "First"
    /\ dialRes' = [dialRes EXCEPT ![o] = Err(e)]
    /\ result' = [result EXCEPT ![o] = Err(FromConnectError(e))]
    /\ chain' = [chain EXCEPT ![o] = "Done"]
    /\ UNCHANGED <<rcHead, call, dialed, connCalls, exRes, dropped, transport, concreteLog, boxedLog, debugOut>>

\* As PollDialOk, but the request goes out on a connection kept by the
\* wrapper (the first one) rather than on the one the dial returned.
PollDialOkCached(o, c) ==
    /\ chain[o] = "First"
    /\ dialRes' = [dialRes EXCEPT ![o] = Ok(c)]
    /\ connCalls' = [connCalls EXCEPT ![1] =
                        Append(@, [by |-> o,
                                   method |-> ConnectionMethod(call[o].kind),
                                   head |-> call[o].head,
                                   body |-> call[o].body])]
    /\ chain' = [chain EXCEPT ![o] = "Second"]
    /\ UNCHANGED <<rcHead, call, dialed, exRes, result, dropped, transport, concreteLog, boxedLog, debugOut>>

\* As PollDialOk, but the request goes out without the caller's body.
PollDialOkNoBody(o, c) ==
    /\ chain[o] = "First"
    /\ dialRes' = [dialRes EXCEPT ![o] = Ok(c)]
    /\ connCalls' = [connCalls EXCEPT ![c] =
                        Append(@, [by |-> o,
                                   method |-> ConnectionMethod(call[o].kind),
                                   head |-> call[o].head,
                                   body |-> None])]
    /\ chain' = [chain EXCEPT ![o] = "Second"]
    /\ UNCHANGED <<rcHead, call, dialed, exRes, result, dropped, transport, concreteLog, boxedLog, debugOut>>

\* and_then(move |connection| connection.send_request(head, body)) or
\* connection.open_tunnel(head): the dial resolved to connection c, which the
\* closure consumes.
PollDialOk(o, c) ==
    /\ chain[o] = "First"
    /\ dialRes' = [dialRes EXCEPT ![o] = Ok(c)]
    /\ connCalls' = [connCalls EXCEPT ![c] =
                        Append(@, [by |-> o,
                                   method |-> ConnectionMethod(call[o].kind),
                                   head |-> call[o].head,
                                   body |-> call[o].body])]
    /\ chain' = [chain EXCEPT ![o] = "Second"]
    /\ UNCHANGED <<rcHead, call, dialed, exRes, result, dropped, transport, concreteLog, boxedLog, debugOut>>

\* As MapItem, but the response is rebuilt with an empty header collection.
MapItemNoHeaders(kind, item) ==
    IF IsTunnel(kind)
    THEN [head |-> item.head, framed |-> FramedOf(BoxedSocket(Socket(item.framed.io)))]
    ELSE ClientResponseNew([item.head EXCEPT !.headers = {}], item.payload)

\* .map(|(head, payload)| ClientResponse::new(head, payload)) and
\* .map(|(head, framed)| (head, framed.map_io(|io| BoxedSocket(Box::new(Socket(io))))))
MapItem(kind, item) ==
    IF IsTunnel(kind)
    THEN [head |-> item.head, framed |-> FramedOf(BoxedSocket(Socket(item.framed.io)))]
    ELSE ClientResponseNew(item.head, item.payload)

\* As PollExchangeOk, but the operation gives up with a timeout of its own
\* while the Connection's future is still pending.
PollExchangeOkTimeout(o, item) ==
    /\ chain[o] = "Second"
    /\ result' = [result EXCEPT ![o] = Err([variant |-> "Timeout", inner |-> ""])]
    /\ chain' = [chain EXCEPT ![o] = "Done"]
    /\ UNCHANGED <<rcHead, call, dialed, dialRes, connCalls, exRes, dropped, transport, concreteLog, boxedLog, debugOut>>

PollExchangeOk(o, item) ==
    /\ chain[o] = "Second"
    /\ exRes' = [exRes EXCEPT ![o] = Ok(item)]
    /\ result' = [result EXCEPT ![o] = Ok(MapItem(call[o].kind, item))]
    /\ chain' = [chain EXCEPT ![o] = "Done"]
    /\ UNCHANGED <<rcHead, call, dialed, dialRes, connCalls, dropped, transport, concreteLog, boxedLog, debugOut>>

\* As PollExchangeErr, but the operation dials again after the failure.
PollExchangeErrRetry(o, x) ==
    /\ chain[o] = "Second"
    /\ Len(dialed[o]) < 2
    /\ exRes' = [exRes EXCEPT ![o] = Err(x)]
    /\ dialed' = [dialed EXCEPT ![o] = Append(@, @[1])]
    /\ chain' = [chain EXCEPT ![o] = "First"]
    /\ UNCHANGED <<rcHead, call, dialRes, connCalls, result, dropped, transport, concreteLog, boxedLog, debugOut>>

\* As PollExchangeErr, but the failure is turned into an empty response.
PollExchangeErrRecover(o, x) ==
    /\ chain[o] = "Second"
    /\ exRes' = [exRes EXCEPT ![o] = Err(x)]
    /\ result' = [result EXCEPT ![o] =
                     Ok(ClientResponseNew([status |-> 200, headers |-> {}],
                                          "Payload::None"))]
    /\ chain' = [chain EXCEPT ![o] = "Done"]
    /\ UNCHANGED <<rcHead, call, dialed, dialRes, connCalls, dropped, transport, concreteLog, boxedLog, debugOut>>

\* The Connection's error is already a SendRequestError: it is the result.
PollExchangeErr(o, x) ==
    /\ chain[o] = "Second"
    /\ exRes' = [exRes EXCEPT ![o] = Err(x)]
    /\ result' = [result EXCEPT ![o] = Err(x)]
    /\ chain' = [chain EXCEPT ![o] = "Done"]
    /\ UNCHANGED <<rcHead, call, dialed, dialRes, connCalls, dropped, transport, concreteLog, boxedLog, debugOut>>

\* Dropping the boxed future drops the future it currently holds: the
\* connector's future in the first state, the Connection's future (which
\* owns the connection) in the second.
DroppedBy(o) ==
    IF chain[o] = "First"
    THEN [what |-> "dial", id |-> o]
    ELSE [what |-> "exchange", id |-> dialRes[o].val]

\* As Drop, but the held future is leaked instead of dropped.
DropForget(o) ==
    /\ chain[o] \in {"First", "Second"}
    /\ chain' = [chain EXCEPT ![o] = "Dropped"]
    /\ UNCHANGED <<rcHead, call, dialed, dialRes, connCalls, exRes, result, dropped, transport, concreteLog, boxedLog, debugOut>>

Drop(o) ==
    /\ chain[o] \in {"First", "Second"}
    /\ dropped' = dropped \cup {DroppedBy(o)}
    /\ chain' = [chain EXCEPT ![o] = "Dropped"]
    /\ UNCHANGED <<rcHead, call, dialed, dialRes, connCalls, exRes, result, transport, concreteLog, boxedLog, debugOut>>

----------------------------------------------------------------------------

\* The argument tuples the operations are exercised with: each head with
\* and without a pre-resolved address, each overlay likewise.
OwnedArgs ==
    { [head |-> [method |-> "GET", uri |-> "http://a.test/",
                 headers |-> {"accept", "x-extra"}],
       addr |-> None],
      [head |-> [method |-> "POST", uri |-> "http://b.test/", headers |-> {}],
       addr |-> Some("127.0.0.1:80")] }
SharedArgs ==
    { [extra |-> None, addr |-> Some("127.0.0.1:80")],
      [extra |-> Some({"x-extra"}), addr |-> None] }

Next ==
    \/ \E o \in Ops, a \in OwnedArgs, body \in Bodies :
            send_request(o, a.head, body, a.addr)
    \/ \E o \in Ops, a \in SharedArgs, body \in Bodies :
            send_request_extra(o, a.extra, body, a.addr)
    \/ \E o \in Ops, a \in OwnedArgs : open_tunnel(o, a.head, a.addr)
    \/ \E o \in Ops, a \in SharedArgs : open_tunnel_extra(o, a.extra, a.addr)
    \/ \E o \in Ops, e \in ConnectErrors : PollDialErr(o, e)
    \/ \E o \in Ops : PollDialOk(o, o)
    \/ \E o \in Ops : \E item \in ExchangeItems(call[o].kind) : PollExchangeOk(o, item)
    \/ \E o \in Ops, x \in SendRequestErrors : PollExchangeErr(o, x)
    \/ \E o \in Ops : Drop(o)

Spec == Init /\ [][Next]_vars

\* A poll of operation o in the first and in the second state of its chain.
PollDial(o) ==
    \/ \E e \in ConnectErrors : PollDialErr(o, e)
    \/ PollDialOk(o, o)
PollExchange(o) ==
    \/ \E item \in ExchangeItems(call[o].kind) : PollExchangeOk(o, item)
    \/ \E x \in SendRequestErrors : PollExchangeErr(o, x)

\* The executor keeps polling a future that is not dropped, and the dial
\* and the exchange/upgrade it waits for complete in the end.
Fairness == \A o \in Ops : WF_vars(PollDial(o)) /\ WF_vars(PollExchange(o))

\* The same operations and steps, over one argument tuple per operation
\* (termination does not depend on the arguments).
FairOwnedArgs == { a \in OwnedArgs : a.addr = None }
FairSharedArgs == { a \in SharedArgs : a.extra = None }

InitFair == Init /\ rcHead.method = "GET"

NextFair ==
    \/ \E o \in Ops, a \in FairOwnedArgs, body \in Bodies :
            send_request(o, a.head, body, a.addr)
    \/ \E o \in Ops, a \in FairSharedArgs, body \in Bodies :
            send_request_extra(o, a.extra, body, a.addr)
    \/ \E o \in Ops, a \in FairOwnedArgs : open_tunnel(o, a.head, a.addr)
    \/ \E o \in Ops, a \in FairSharedArgs : open_tunnel_extra(o, a.extra, a.addr)
    \/ \E o \in Ops, e \in ConnectErrors : PollDialErr(o, e)
    \/ \E o \in Ops : PollDialOk(o, o)
    \/ \E o \in Ops : \E item \in ExchangeItems(call[o].kind) : PollExchangeOk(o, item)
    \/ \E o \in Ops, x \in SendRequestErrors : PollExchangeErr(o, x)
    \/ \E o \in Ops : Drop(o)

SpecFair == InitFair /\ [][NextFair]_vars /\ Fairness

----------------------------------------------------------------------------
\* BoxedSocket over a concrete transport.

\* Number of calls made on the BoxedSocket.
MaxIoCalls == 3

Min(a, b) == IF a < b THEN a ELSE b

\* io::Result / Poll values returned by a transport call.
IoOk(n, bytes) == [tag |-> "Ok", kind |-> "", n |-> n, bytes |-> bytes]
IoErr(kind) == [tag |-> "Err", kind |-> kind, n |-> 0, bytes |-> <<>>]
AsyncReady == [tag |-> "Ready", kind |-> "", n |-> 0, bytes |-> <<>>]
AsyncNotReady == [tag |-> "NotReady", kind |-> "", n |-> 0, bytes |-> <<>>]

IsNotReady(ret) ==
    \/ ret.tag = "NotReady"
    \/ ret.tag = "Err" /\ ret.kind = "WouldBlock"

\* The concrete transport (the environment): a non-blocking stream.  Each
\* operator gives what the call returns and the transport afterwards.
ConcreteRead(t, n) ==
    IF ~t.readReady THEN [ret |-> IoErr("WouldBlock"), t |-> t]
    ELSE LET k == Min(n, Len(t.incoming))
         IN  [ret |-> IoOk(k, SubSeq(t.incoming, 1, k)),
              t |-> [t EXCEPT !.incoming = SubSeq(@, k + 1, Len(@))]]

ConcreteWrite(t, buf) ==
    IF t.closed THEN [ret |-> IoErr("BrokenPipe"), t |-> t]
    ELSE IF ~t.writeReady THEN [ret |-> IoErr("WouldBlock"), t |-> t]
    ELSE LET k == Min(Len(buf), t.window)
         IN  [ret |-> IoOk(k, <<>>),
              t |-> [t EXCEPT !.received = @ \o SubSeq(buf, 1, k)]]

ConcreteFlush(t) ==
    IF ~t.writeReady THEN [ret |-> IoErr("WouldBlock"), t |-> t]
    ELSE [ret |-> IoOk(0, <<>>), t |-> t]

ConcreteShutdown(t) ==
    IF ~t.writeReady THEN [ret |-> AsyncNotReady, t |-> t]
    ELSE [ret |-> AsyncReady, t |-> [t EXCEPT !.closed = TRUE]]

\* The BoxedSocket the caller of open_tunnel holds.
TunnelSocket == result[1].val.framed.io

\* Socket<T>::as_read_mut / as_write: a reference to the wrapped transport.
as_read_mut(s) == s.socket
as_write(s) == s.socket

LogEntry(op, n, buf, ret) == [op |-> op, n |-> n, buf |-> buf, ret |-> ret]

\* One call on the BoxedSocket: `target` is the transport the call is
\* delegated to, r what the transport returned, ret what the caller gets.
Delegate(op, n, buf, target, r, ret) ==
    /\ Len(boxedLog) < MaxIoCalls
    /\ transport.kind = target
    /\ transport' = r.t
    /\ concreteLog' = Append(concreteLog, LogEntry(op, n, buf, r.ret))
    /\ boxedLog' = Append(boxedLog, LogEntry(op, n, buf, ret))
    /\ UNCHANGED <<adapterVars, debugOut>>

\* As read, but a read that would block is reported as end of stream.
read_eof(n) ==
    LET r == ConcreteRead(transport, n)
    IN  Delegate("read", n, <<>>, as_read_mut(TunnelSocket.boxed), r,
                 IF IsNotReady(r.ret) THEN IoOk(0, <<>>) ELSE r.ret)

\* io::Read for BoxedSocket: self.0.as_read_mut().read(buf)
read(n) ==
    LET r == ConcreteRead(transport, n)
    IN  Delegate("read", n, <<>>, as_read_mut(TunnelSocket.boxed), r, r.ret)

\* As write, but the whole buffer is reported as written.
write_all(buf) ==
    LET r == ConcreteWrite(transport, buf)
    IN  Delegate("write", 0, buf, as_write(TunnelSocket.boxed), r,
                 IF r.ret.tag = "Ok" THEN IoOk(Len(buf), <<>>) ELSE r.ret)

\* io::Write for BoxedSocket: self.0.as_write().write(buf)
write(buf) ==
    LET r == ConcreteWrite(transport, buf)
    IN  Delegate("write", 0, buf, as_write(TunnelSocket.boxed), r, r.ret)

\* io::Write for BoxedSocket: self.0.as_write().flush()
flush ==
    LET r == ConcreteFlush(transport)
    IN  Delegate("flush", 0, <<>>, as_write(TunnelSocket.boxed), r, r.ret)

\* As shutdown, but once a shutdown has completed the wrapper answers
\* later ones itself.
shutdown_once ==
    IF \E i \in 1..Len(boxedLog) :
          boxedLog[i].op = "shutdown" /\ boxedLog[i].ret = AsyncReady
    THEN /\ Len(boxedLog) < MaxIoCalls
         /\ boxedLog' = Append(boxedLog, LogEntry("shutdown", 0, <<>>, AsyncReady))
         /\ UNCHANGED <<adapterVars, transport, concreteLog, debugOut>>
    ELSE LET r == ConcreteShutdown(transport)
         IN  Delegate("shutdown", 0, <<>>, as_write(TunnelSocket.boxed), r, r.ret)

\* AsyncWrite for BoxedSocket: self.0.as_write().shutdown()
shutdown ==
    LET r == ConcreteShutdown(transport)
    IN  Delegate("shutdown", 0, <<>>, as_write(TunnelSocket.boxed), r, r.ret)

\* As fmt, but the rendering names the wrapped transport.
fmt_inner ==
    /\ debugOut' = "BoxedSocket(" \o as_write(TunnelSocket.boxed) \o ")"
    /\ UNCHANGED <<adapterVars, transport, concreteLog, boxedLog>>

\* fmt::Debug for BoxedSocket: write!(f, "BoxedSocket")
fmt ==
    /\ debugOut' = "BoxedSocket"
    /\ UNCHANGED <<adapterVars, transport, concreteLog, boxedLog>>

\* The transport's readiness changes (the reactor's doing, not the caller's).
Readiness(rd, wr) ==
    /\ <<rd, wr>> # <<transport.readReady, transport.writeReady>>
    /\ transport' = [transport EXCEPT !.readReady = rd, !.writeReady = wr]
    /\ UNCHANGED <<adapterVars, concreteLog, boxedLog, debugOut>>

ReadLens == {1, 2}
WriteBufs == { <<"a">>, <<"b", "c">> }
PeerBytes == { <<>>, <<"x", "y", "z">> }

\* The adapter after operation 1, an open_tunnel, resolved successfully.
TunnelOpen(a, item) ==
    /\ call = [o \in Ops |-> IF o = 1
                  THEN [kind |-> "open_tunnel", head |-> RequestHeadTypeFrom(a.head),
                        body |-> None, addr |-> a.addr]
                  ELSE NoCall]
    /\ chain = [o \in Ops |-> IF o = 1 THEN "Done" ELSE "none"]
    /\ dialed = [o \in Ops |-> IF o = 1 THEN <<ClientConnect(a.head.uri, a.addr)>>
                               ELSE <<>>]
    /\ dialRes = [o \in Ops |-> IF o = 1 THEN Ok(1) ELSE Pending]
    /\ connCalls = [c \in Conns |-> IF c = 1
                       THEN << [by |-> 1, method |-> "open_tunnel",
                                head |-> RequestHeadTypeFrom(a.head), body |-> None] >>
                       ELSE <<>>]
    /\ exRes = [o \in Ops |-> IF o = 1 THEN Ok(item) ELSE Pending]
    /\ result = [o \in Ops |-> IF o = 1 THEN Ok(MapItem("open_tunnel", item))
                               ELSE NoResult]
    /\ dropped = {}

\* The caller holds the BoxedSocket of a tunnel; the transport behind it is
\* the one the upgrade returned, in any readiness state.
InitIO ==
    /\ rcHead = [method |-> "GET", uri |-> "http://a.test/", headers |-> {"accept"}]
    /\ \E a \in { x \in OwnedArgs : x.addr = None },
          item \in ExchangeItems("open_tunnel") :
          /\ TunnelOpen(a, item)
          /\ \E bytes \in PeerBytes, w \in {1, 2}, rd \in BOOLEAN, wr \in BOOLEAN :
                transport = [kind |-> item.framed.io, sent |-> bytes,
                             incoming |-> bytes, received |-> <<>>, window |-> w,
                             closed |-> FALSE, readReady |-> rd, writeReady |-> wr]
    /\ concreteLog = <<>>
    /\ boxedLog = <<>>
    /\ debugOut = ""

NextIO ==
    \/ \E n \in ReadLens : read(n)
    \/ \E buf \in WriteBufs : write(buf)
    \/ flush
    \/ shutdown
    \/ fmt
    \/ \E rd \in BOOLEAN, wr \in BOOLEAN : Readiness(rd, wr)

SpecIO == InitIO /\ [][NextIO]_vars

----------------------------------------------------------------------------
\* Properties

Started(o) == chain[o] # "none"
DialFailed(o) == dialRes[o].tag = "Err"
ExchangeFailed(o) == exRes[o].tag = "Err"

\* The calls operation o has made on connection c.
CallsOn(c, o) == { i \in 1..Len(connCalls[c]) : connCalls[c][i].by = o }
NumCallsBy(o) == Cardinality(UNION { {<<c, i>> : i \in CallsOn(c, o)} : c \in Conns })

\* C1: once the dial of an operation has failed, that operation has invoked
\* neither send_request nor open_tunnel on any Connection, in this state or
\* any later one (the failure is recorded for good).
C1_NoExchangeAfterDialFailure ==
    \A o \in Ops : DialFailed(o) => \A c \in Conns : CallsOn(c, o) = {}

C1_Witness ==
    \E o \in Ops : DialFailed(o) /\ chain[o] = "Done" /\ result[o].tag = "Err"

\* C2: every started operation has issued exactly one dial, and at most one
\* exchange/upgrade, on the connection its dial returned; a failure of the
\* dial or of the exchange/upgrade is followed by no further dial or call.
C2_OneDialAtMostOneExchange ==
    \A o \in Ops :
        /\ Len(dialed[o]) = (IF Started(o) THEN 1 ELSE 0)
        /\ NumCallsBy(o) <= 1
        /\ \A c \in Conns : CallsOn(c, o) # {} => dialRes[o] = Ok(c)
        /\ (DialFailed(o) \/ ExchangeFailed(o)) =>
              /\ chain[o] = "Done"
              /\ NumCallsBy(o) = (IF DialFailed(o) THEN 0 ELSE 1)

C2_Witness ==
    \E o \in Ops : ExchangeFailed(o) /\ Len(dialed[o]) = 1 /\ NumCallsBy(o) = 1

C4_FailuresPropagateUnchanged ==
    \A o \in Ops :
        /\ DialFailed(o) => result[o] = Err(SendRequestErrorConnect(dialRes[o].val))
        /\ ExchangeFailed(o) => result[o] = Err(exRes[o].val)
        /\ result[o].tag = "Ok" => dialRes[o].tag = "Ok" /\ exRes[o].tag = "Ok"

C4_Witness ==
    /\ \E o \in Ops : DialFailed(o) /\ result[o].tag = "Err"
    /\ \E o \in Ops : ExchangeFailed(o) /\ result[o].tag = "Err"

\* C5: when send_request / send_request_extra get (head, payload) from the
\* exchange, they resolve to a ClientResponse with that head, field by field,
\* and that payload.
C5_ResponsePassedThrough ==
    \A o \in Ops :
        (~IsTunnel(call[o].kind) /\ exRes[o].tag = "Ok") =>
            /\ result[o].tag = "Ok"
            /\ result[o].val.head.status = exRes[o].val.head.status
            /\ result[o].val.head.headers = exRes[o].val.head.headers
            /\ result[o].val.payload = exRes[o].val.payload

C5_Witness ==
    \E o \in Ops :
        /\ call[o].kind = "send_request_extra"
        /\ exRes[o].tag = "Ok" /\ exRes[o].val.head.status = 200
        /\ result[o].tag = "Ok"

\* C6: an operation dropped while its dial is pending has dropped the
\* connector's future, and one dropped while the exchange is pending has
\* dropped the Connection's future: no dropped operation leaves its
\* connection with a call outstanding and no drop delivered.
C6_DropReachesHeldFuture ==
    \A o \in Ops :
        chain[o] = "Dropped" =>
            IF dialRes[o].tag = "Ok"
            THEN /\ [what |-> "exchange", id |-> dialRes[o].val] \in dropped
                 /\ ~(/\ CallsOn(dialRes[o].val, o) # {}
                      /\ exRes[o] = Pending
                      /\ [what |-> "exchange", id |-> dialRes[o].val] \notin dropped)
            ELSE [what |-> "dial", id |-> o] \in dropped

C6_Witness ==
    /\ \E o \in Ops : call[o].kind = "send_request" /\ chain[o] = "Dropped"
                        /\ dialRes[o].tag = "Ok"
    /\ \E o \in Ops : call[o].kind = "send_request" /\ chain[o] = "Dropped"
                        /\ dialRes[o] = Pending

IsExtra(kind) == kind \in {"send_request_extra", "open_tunnel_extra"}

\* C7: no step of any operation changes the shared head: its method, uri
\* and header collection are the same before and after every step.
C7_SharedHeadNeverMutated ==
    [][/\ rcHead'.method = rcHead.method
       /\ rcHead'.uri = rcHead.uri
       /\ rcHead'.headers = rcHead.headers]_vars

C7_Witness ==
    /\ \E o \in Ops : /\ call[o].kind = "send_request_extra"
                      /\ call[o].head.extra # None
                      /\ result[o].tag = "Ok"
    /\ \E o \in Ops : /\ IsExtra(call[o].kind)
                      /\ result[o].tag = "Err"

\* The uri of the head operation o was invoked with.
HeadUri(o) == IF call[o].head.rc THEN rcHead.uri ELSE call[o].head.head.uri

\* What an operation resolves to, given its own dial and exchange outcomes.
OwnResult(kind, d, x) ==
    IF d.tag = "Err" THEN Err(SendRequestErrorConnect(d.val))
    ELSE IF x.tag = "Err" THEN Err(x.val)
    ELSE IF x.tag = "Ok" THEN
        Ok(IF IsTunnel(kind)
           THEN [head |-> x.val.head,
                 framed |-> [io |-> [boxed |-> [socket |-> x.val.framed.io]],
                             codec |-> "ClientCodec"]]
           ELSE [head |-> x.val.head, payload |-> x.val.payload])
    ELSE NoResult

\* C9: with operations interleaved, each one dials with its own target, a
\* connection receives calls only from the operation whose dial returned it
\* (so no connection serves two operations), and each result is a function
\* of the operation's own dial and exchange outcomes.
C9_OperationsIndependent ==
    /\ \A o \in Ops : Started(o) =>
            dialed[o] = << [uri |-> HeadUri(o), addr |-> call[o].addr] >>
    /\ \A c \in Conns : \A i \in 1..Len(connCalls[c]) :
            /\ dialRes[connCalls[c][i].by] = Ok(c)
            /\ connCalls[c][i].head = call[connCalls[c][i].by].head
    /\ \A c \in Conns : Cardinality({ connCalls[c][i].by : i \in 1..Len(connCalls[c]) }) <= 1
    /\ \A o \in Ops : result[o] = OwnResult(call[o].kind, dialRes[o], exRes[o])

C9_Witness ==
    \E o, p \in Ops :
        /\ o # p
        /\ chain[o] = "Second" /\ chain[p] = "Second"
        /\ CallsOn(dialRes[o].val, o) # {} /\ CallsOn(dialRes[p].val, p) # {}

----------------------------------------------------------------------------
\* Properties of BoxedSocket (under SpecIO)

RECURSIVE WrittenThrough(_)
\* The bytes the caller was told were written, in order.
WrittenThrough(log) ==
    IF log = <<>> THEN <<>>
    ELSE LET e == Head(log)
         IN  (IF e.op = "write" /\ e.ret.tag = "Ok"
              THEN SubSeq(e.buf, 1, e.ret.n) ELSE <<>>) \o WrittenThrough(Tail(log))

RECURSIVE ReadThrough(_)
\* The bytes the caller's reads returned, in order.
ReadThrough(log) ==
    IF log = <<>> THEN <<>>
    ELSE LET e == Head(log)
         IN  (IF e.op = "read" /\ e.ret.tag = "Ok" THEN e.ret.bytes ELSE <<>>)
                \o ReadThrough(Tail(log))

\* C8: for any sequence of read, write and flush calls on the BoxedSocket,
\* the concrete transport receives the same calls in the same order and the
\* caller gets what the transport returned, count and bytes; the bytes
\* written through the wrapper are those the transport received, and the
\* bytes read through it are those the transport gave up.
C8_BoxedSocketEquivalent ==
    /\ Len(boxedLog) = Len(concreteLog)
    /\ \A i \in 1..Len(boxedLog) :
          boxedLog[i].op \in {"read", "write", "flush"} => boxedLog[i] = concreteLog[i]
    /\ transport.received = WrittenThrough(boxedLog)
    /\ ReadThrough(boxedLog) \o transport.incoming = transport.sent

C8_Witness ==
    \E i, j \in 1..Len(boxedLog) :
        /\ boxedLog[i].op = "write" /\ Len(boxedLog[i].buf) = 2 /\ boxedLog[i].ret.n = 1
        /\ boxedLog[j].op = "read" /\ boxedLog[j].ret.n = 2
        /\ transport.kind = "SslStream"

\* C10: a call on the BoxedSocket returns the transport's not-ready outcome
\* whenever the transport reports one (WouldBlock from read, write and flush,
\* NotReady from shutdown), and the retry of a call that was not ready
\* returns what the transport returns then.
C10_ReadinessPreserved ==
    \A i \in 1..Len(concreteLog) :
        /\ IsNotReady(concreteLog[i].ret) =>
              /\ i <= Len(boxedLog)
              /\ boxedLog[i].op = concreteLog[i].op
              /\ boxedLog[i].ret = concreteLog[i].ret
        /\ \A j \in 1..(i - 1) :
              (/\ IsNotReady(concreteLog[j].ret)
               /\ concreteLog[j].op = concreteLog[i].op
               /\ concreteLog[j].n = concreteLog[i].n
               /\ concreteLog[j].buf = concreteLog[i].buf)
                  => boxedLog[i].ret = concreteLog[i].ret

C10_Witness ==
    \E i \in 1..Len(boxedLog) :
        /\ i > 1
        /\ boxedLog[i].op = "read" /\ boxedLog[i - 1].op = "read"
        /\ boxedLog[i - 1].ret = IoErr("WouldBlock")
        /\ boxedLog[i].ret.tag = "Ok" /\ boxedLog[i].ret.n > 0

----------------------------------------------------------------------------
\* Further properties of the adapter (under Spec)

\* C11: open_tunnel and open_tunnel_extra call open_tunnel on the connection
\* and never send_request, and resolve to the head as the upgrade returned it
\* with the concrete transport inside exactly one BoxedSocket; send_request
\* and send_request_extra call send_request and never open_tunnel.
C11_ModeFixedPerOperation ==
    /\ \A c \in Conns : \A i \in 1..Len(connCalls[c]) :
          connCalls[c][i].method =
              (IF call[connCalls[c][i].by].kind \in {"open_tunnel", "open_tunnel_extra"}
               THEN "open_tunnel" ELSE "send_request")
    /\ \A o \in Ops :
          (call[o].kind \in {"open_tunnel", "open_tunnel_extra"} /\ exRes[o].tag = "Ok") =>
              /\ result[o].tag = "Ok"
              /\ result[o].val.head = exRes[o].val.head
              /\ result[o].val.framed.io = [boxed |-> [socket |-> exRes[o].val.framed.io]]
              /\ exRes[o].val.framed.io \in Ios

C11_Witness ==
    /\ \E o \in Ops : /\ call[o].kind = "open_tunnel_extra"
                      /\ result[o].tag = "Ok"
                      /\ exRes[o].val.framed.io = "SslStream"
    /\ \E o \in Ops : /\ call[o].kind = "send_request"
                      /\ dialRes[o].tag = "Ok"
                      /\ CallsOn(dialRes[o].val, o) # {}

\* The head a Connection sends for a RequestHeadType: the owned head, or the
\* shared head with the overlay's headers added.
EffectiveHead(ht) ==
    IF ht.rc THEN [rcHead EXCEPT !.headers = @ \cup UNION ht.extra] ELSE ht.head

\* What the environment did to operation o: the dial's outcome and the
\* exchange's.
OutcomeOf(o) ==
    << IF dialRes[o].tag = "Err" THEN dialRes[o].val ELSE dialRes[o].tag,
       IF exRes[o].tag = "Pending" THEN << >> ELSE << exRes[o] >> >>

\* What operation o did: its dials, the calls on its connection (method,
\* effective head, body) and its result.
TraceOf(o) ==
    [dials |-> dialed[o],
     calls |-> { [method |-> connCalls[c][i].method,
                  head |-> EffectiveHead(connCalls[c][i].head),
                  body |-> connCalls[c][i].body] :
                 <<c, i>> \in UNION { {<<d, j>> : j \in CallsOn(d, o)} : d \in Conns } },
     ncalls |-> NumCallsBy(o),
     result |-> result[o]]

\* An owned-head operation and a shared-head one of the same mode, given
\* the same effective head, body and address.
SameRequest(o, p) ==
    /\ call[o].kind \in {"send_request", "open_tunnel"}
    /\ call[p].kind \in {"send_request_extra", "open_tunnel_extra"}
    /\ IsTunnel(call[o].kind) = IsTunnel(call[p].kind)
    /\ EffectiveHead(call[o].head) = EffectiveHead(call[p].head)
    /\ call[o].body = call[p].body
    /\ call[o].addr = call[p].addr

\* C12: send_request and send_request_extra (open_tunnel and
\* open_tunnel_extra) given the same effective head, body and address, and
\* met with the same dial and exchange outcomes, make the same dial, the
\* same call with the same effective head and body, and resolve alike.
C12_OwnedAndSharedAlike ==
    \A o, p \in Ops :
        (SameRequest(o, p) /\ OutcomeOf(o) = OutcomeOf(p)) => TraceOf(o) = TraceOf(p)

C12_Witness ==
    /\ \E o, p \in Ops :
          /\ SameRequest(o, p) /\ call[p].head.extra # None
          /\ call[o].kind = "send_request" /\ result[o].tag = "Ok" /\ result[p].tag = "Ok"
          /\ OutcomeOf(o) = OutcomeOf(p)

C12_WitnessTunnel ==
    \E o, p \in Ops :
        /\ SameRequest(o, p) /\ call[p].head.extra = None
        /\ call[o].kind = "open_tunnel" /\ result[o].tag = "Err" /\ result[p].tag = "Err"
        /\ OutcomeOf(o) = OutcomeOf(p)

\* C15: the ClientConnect handed to the connector has the uri of the head
\* the operation was invoked with and the caller's optional address (None
\* stays None), and the head (owned, or shared with the caller's overlay)
\* and body handed to the connection are those the caller supplied.
C15_ArgumentsPassedOn ==
    /\ \A o \in Ops : Started(o) =>
          /\ Len(dialed[o]) = 1
          /\ dialed[o][1].uri = HeadUri(o)
          /\ dialed[o][1].addr = call[o].addr
    /\ \A c \in Conns : \A i \in 1..Len(connCalls[c]) :
          /\ connCalls[c][i].head = call[connCalls[c][i].by].head
          /\ connCalls[c][i].body = call[connCalls[c][i].by].body

C15_Witness ==
    /\ \E o \in Ops : /\ call[o].kind = "send_request" /\ call[o].addr = None
                      /\ dialRes[o].tag = "Ok" /\ CallsOn(dialRes[o].val, o) # {}
    /\ \E o \in Ops : /\ call[o].kind = "open_tunnel_extra" /\ call[o].addr # None
                      /\ dialRes[o].tag = "Ok" /\ CallsOn(dialRes[o].val, o) # {}

\* C16: under fairness every started operation is resolved or dropped in the
\* end; a result, once there, never changes; the result is a success exactly
\* when the dial and the exchange/upgrade both succeeded; and there is a
\* result only after the dial has completed and, if it succeeded, the
\* exchange/upgrade has completed too (nothing else, such as a timeout,
\* resolves the operation).
C16_ResolvesOnceUnderFairness ==
    /\ \A o \in Ops : Started(o) ~> (chain[o] \in {"Done", "Dropped"})
    /\ [](\A o \in Ops :
            /\ (chain[o] = "Done") <=> (result[o] # NoResult)
            /\ (result[o].tag = "Ok") <=> (dialRes[o].tag = "Ok" /\ exRes[o].tag = "Ok")
            /\ (result[o] # NoResult) =>
                  /\ dialRes[o].tag # "Pending"
                  /\ dialRes[o].tag = "Ok" => exRes[o].tag # "Pending")
    /\ [][\A o \in Ops : result[o] # NoResult => result'[o] = result[o]]_vars

C16_Witness ==
    /\ \E o \in Ops : chain[o] = "Done" /\ result[o].tag = "Ok"
    /\ \E o \in Ops : chain[o] = "Done" /\ result[o].tag = "Err"
                        /\ dialRes[o].tag = "Ok"

\* C17: the dial is made when the operation is invoked: an operation whose
\* future is still in its first state, or was dropped there, has made exactly
\* one dial and no call on a connection; a call on a connection is made only
\* by a poll of the future, after its dial has succeeded.
C17_DialAtInvocation ==
    /\ \A o \in Ops :
          (chain[o] = "First" \/ (chain[o] = "Dropped" /\ dialRes[o].tag = "Pending"))
              => Len(dialed[o]) = 1 /\ NumCallsBy(o) = 0
    /\ \A o \in Ops :
          NumCallsBy(o) > 0 => dialRes[o].tag = "Ok" /\ chain[o] # "First"

C17_Witness ==
    \E o \in Ops : /\ chain[o] = "Dropped" /\ dialRes[o].tag = "Pending"
                   /\ Len(dialed[o]) = 1 /\ NumCallsBy(o) = 0

\* C18: an operation can be started, and so its dial is made, in every state
\* of the connector, ready or not: none of the four operations waits for the
\* connector to report ready.
C18_DialsWhateverReadiness ==
    \A o \in Ops :
        CanStart(o) =>
            /\ ENABLED (\E a \in OwnedArgs, b \in Bodies : send_request(o, a.head, b, a.addr))
            /\ ENABLED (\E a \in SharedArgs, b \in Bodies :
                            send_request_extra(o, a.extra, b, a.addr))
            /\ ENABLED (\E a \in OwnedArgs : open_tunnel(o, a.head, a.addr))
            /\ ENABLED (\E a \in SharedArgs : open_tunnel_extra(o, a.extra, a.addr))

C18_Witness ==
    /\ ~ConnectorReady
    /\ chain[1] = "First" /\ chain[2] = "First"
    /\ Len(dialed[2]) = 1

----------------------------------------------------------------------------
\* Further properties of BoxedSocket (under SpecIO)

ShutdownsIn(log) == { i \in 1..Len(log) : log[i].op = "shutdown" }

\* C13: every shutdown call on the BoxedSocket, the second and later ones
\* included, is one shutdown call on the transport and returns its result:
\* after n calls on the wrapper the transport has received n, and the
\* wrapper is still the same BoxedSocket over the same transport.
C13_ShutdownAlwaysForwarded ==
    /\ Cardinality(ShutdownsIn(boxedLog)) = Cardinality(ShutdownsIn(concreteLog))
    /\ \A i \in ShutdownsIn(boxedLog) :
          /\ i <= Len(concreteLog)
          /\ concreteLog[i].op = "shutdown"
          /\ boxedLog[i].ret = concreteLog[i].ret
    /\ TunnelSocket = [boxed |-> [socket |-> transport.kind]]

C13_Witness ==
    /\ Cardinality(ShutdownsIn(boxedLog)) = 3
    /\ boxedLog[1].ret = AsyncNotReady
    /\ boxedLog[2].ret = AsyncReady
    /\ boxedLog[3].ret = AsyncReady

\* C14: a Debug rendering of a BoxedSocket writes the label "BoxedSocket"
\* whatever transport it wraps, whatever that transport's state and whatever
\* calls came before, and leaves the transport and both call logs as they
\* were.
C14_DebugIsOpaque ==
    [][debugOut' # debugOut =>
          /\ debugOut' = "BoxedSocket"
          /\ transport' = transport
          /\ concreteLog' = concreteLog
          /\ boxedLog' = boxedLog]_vars

C14_Witness ==
    /\ debugOut = "BoxedSocket"
    /\ transport.kind = "SslStream"
    /\ transport.closed
    /\ Len(boxedLog) = 2

====
